---- MODULE Spec2Model ----
(***************************************************************************)
(* Model of the AI document service (src/unnamed/part_000): the provider   *)
(* fallback orchestrator generateWithFallback, the Groq client            *)
(* callGroqAPI, the document services generateDocument, generateAnswers    *)
(* and gradeSubmission built on it, and the OCR router extractText; and of *)
(* src/src/components/meeting/ClassMeeting.tsx: the submission file        *)
(* validation, the upload of class materials and the class meeting         *)
(* component.                                                              *)
(*                                                                         *)
(* A JavaScript string is modelled as the sequence of the chunks it is     *)
(* the concatenation of.  An error message is a sequence of TLA+ strings   *)
(* ("gene" \o "rate" \o "Content" is the text generateContent); a provider *)
(* text is a sequence of lexical tokens (whitespace, a ``` fence, the word *)
(* json, prose, a JSON literal).                                           *)
(*                                                                         *)
(* Each component has its own variables and its own specification; a       *)
(* specification leaves the variables of the other components idle.        *)
(***************************************************************************)
EXTENDS Integers, Sequences, FiniteSets, TLC

VARIABLES
    pc,          \* per call: where the async function is suspended
    svc,         \* per call: the document service that was called
    geminiOut,   \* per call: Provider A's text, or the caught geminiError
    groqResp,    \* per call: the HTTP response callGroqAPI received
    orch,        \* per call: what generateWithFallback returned or threw
    result,      \* per call: what the document service returned or threw
    invoked,     \* per call: the provider requests issued, in order
    inflight,    \* provider requests issued and not yet resolved
    started      \* number of document-service calls made so far

\* The File object given to extractText or to validateSubmissionFile.
VARIABLES
    file,              \* the File: name, declared type, size, content
    ocrPc,             \* where extractText is suspended
    pageNum,           \* the page the PDF loop is at
    allExtractedText,  \* the text accumulated by the PDF loop
    ocrLog,            \* the OCR steps started and finished so far, in order
    ocrResult,         \* what extractText returned or threw
    validation         \* what validateSubmissionFile returned

\* The class meeting: the backend's records and, per client, the state of
\* the mounted ClassMeeting component.
VARIABLES
    variant,        \* which of the two components of the file is in use
    meetings,       \* backend: the meetings of the class that are active
    created,        \* backend: number of meeting records created so far
    mounted,        \* per client: the component is mounted
    activeMeeting,  \* per client: the state activeMeeting (0 is null)
    isLoading,      \* per client: the state isLoading
    isStarting,     \* per client: the state isStarting
    showMeeting,    \* per client: the state showMeeting
    polls,          \* per client: responses of getActiveClassMeeting on the way
    startCall,      \* per client: where handleStartMeeting is suspended
    endCall,        \* per client: where handleEndMeeting is suspended
    startLog,       \* per client: what the last handleStartMeeting did, in order
    out             \* the step just taken, if it made calls on the world
                    \* outside the component: the calls, and its view before

\* One call of uploadMaterials.
VARIABLES
    files,          \* the argument files
    onProgress,     \* the argument onProgress: absent, or how it behaves
    uploadPc,       \* where uploadMaterials is suspended
    fileIndex,      \* the loop variable i
    results,        \* the local results
    errors,         \* the local errors
    progress,       \* the calls of onProgress made so far, in order
    attempts,       \* the calls of uploadMaterial made so far, in order
    uploadReturn    \* what uploadMaterials returned or threw

docVars == <<pc, svc, geminiOut, groqResp, orch, result, invoked,
             inflight, started>>
fileVars == <<file, ocrPc, pageNum, allExtractedText, ocrLog, ocrResult,
              validation>>

meetVars == <<variant, meetings, created, mounted, activeMeeting,
              isLoading, isStarting, showMeeting, polls, startCall, endCall,
              startLog, out>>

uploadVars == <<files, onProgress, uploadPc, fileIndex, results, errors,
                progress, attempts, uploadReturn>>

vars == <<docVars, fileVars, meetVars, uploadVars>>

(***************************************************************************)
(* Bounds of the model.                                                    *)
(***************************************************************************)
MaxStarted == 3          \* document-service calls made in one behaviour
MaxTextLen == 5          \* tokens in a provider text given to the grader

Calls == {"c1", "c2"}    \* two calls that may be suspended at the same time

Services == {"generateDocument", "generateAnswers", "gradeSubmission"}

None == [kind |-> "none"]

\* No document service has been called.
IdleDoc ==
    /\ pc = [c \in Calls |-> "idle"]
    /\ svc = [c \in Calls |-> "none"]
    /\ geminiOut = [c \in Calls |-> None]
    /\ groqResp = [c \in Calls |-> None]
    /\ orch = [c \in Calls |-> None]
    /\ result = [c \in Calls |-> None]
    /\ invoked = [c \in Calls |-> <<>>]
    /\ inflight = {}
    /\ started = 0

Clients == {"teacher", "student"}

\* No ClassMeeting component is in use.
IdleMeeting ==
    /\ variant = "none"
    /\ meetings = {}
    /\ created = 0
    /\ mounted = [c \in Clients |-> FALSE]
    /\ activeMeeting = [c \in Clients |-> 0]
    /\ isLoading = [c \in Clients |-> TRUE]
    /\ isStarting = [c \in Clients |-> FALSE]
    /\ showMeeting = [c \in Clients |-> FALSE]
    /\ polls = [c \in Clients |-> {}]
    /\ startCall = [c \in Clients |-> None]
    /\ endCall = [c \in Clients |-> None]
    /\ startLog = [c \in Clients |-> <<>>]
    /\ out = None

\* No file has been chosen.
IdleFile ==
    /\ file = None
    /\ ocrPc = "idle"
    /\ pageNum = 0
    /\ allExtractedText = <<>>
    /\ ocrLog = <<>>
    /\ ocrResult = None
    /\ validation = None

\* uploadMaterials has not been called.
IdleUpload ==
    /\ files = <<>>
    /\ onProgress = "absent"
    /\ uploadPc = "idle"
    /\ fileIndex = 0
    /\ results = <<>>
    /\ errors = <<>>
    /\ progress = <<>>
    /\ attempts = <<>>
    /\ uploadReturn = None

(***************************************************************************)
(* Strings.                                                                *)
(***************************************************************************)
\* String.prototype.includes: sub occurs in s as a contiguous substring.
Includes(s, sub) ==
    \E i \in 0..(Len(s) - Len(sub)) : SubSeq(s, i + 1, i + Len(sub)) = sub

\* The markers of lines 59-64.
QuotaMarkers ==
    { <<"quota">>,
      <<"429">>,
      <<"rate">>,
      <<"Resource", " ", "has", " ", "been", " ", "exhausted">>,
      <<"not", " ", "found">>,
      <<"not", " ", "supported">> }

\* const isQuotaError = geminiError.message?.includes('quota') || ...
isQuotaError(msg) == \E m \in QuotaMarkers : Includes(msg, m)

\* new Error(`Both AI providers failed. Gemini: ${..}, Groq: ${..}`)
\* Faulty variant: the combined message leaves out Groq's message.
BothFailedNoGroq(gm, qm) == <<"Both AI providers failed. Gemini: ">> \o gm
BothFailedMessage(gm, qm) ==
    <<"Both AI providers failed. Gemini: ">> \o gm \o <<", Groq: ">> \o qm

Err(src, msg) == [kind |-> "error", src |-> src, msg |-> msg]
Ok(text) == [kind |-> "ok", text |-> text]

(***************************************************************************)
(* Provider A (Gemini): geminiModel.generateContent(prompt) followed by    *)
(* response.text() yields a text or throws an error with a message.        *)
(***************************************************************************)
FetchFailed == <<"Failed", " ", "to", " ", "fetch">>

GeminiMessages ==
    { <<"You", " ", "exceeded", " ", "your", " ", "quota">>,
      <<"[", "429", " ", "Too", " ", "Many", " ", "Requests", "]">>,
      <<"Error", " ", "in", " ", "gene", "rate", "Content">>,
      <<"Resource", " ", "has", " ", "been", " ", "exhausted">>,
      <<"model", " ", "is", " ", "not", " ", "found">>,
      <<"method", " ", "is", " ", "not", " ", "supported">>,
      <<"Quota", ":", " ", "not", "found", ",", " ", "Resource", " ", "has",
        " ", "been", " ", "used">>,
      FetchFailed }


(***************************************************************************)
(* Provider B (Groq): the HTTP exchange callGroqAPI makes with fetch.      *)
(***************************************************************************)
GroqResponse(fetch, ok, status, statusText, json, errorMessage, choices, content) ==
    [ kind         |-> "response",
      fetch        |-> fetch,         \* "ok", or "rejected" (no response)
      ok           |-> ok,            \* response.ok
      status       |-> status,        \* response.status
      statusText   |-> statusText,    \* response.statusText
      json         |-> json,          \* "valid": response.json() resolves
      errorMessage |-> errorMessage,  \* body.error?.message (<<>> if none)
      choices      |-> choices,       \* "absent", "empty" or "one"
      content      |-> content ]      \* choices[0].message.content (<<>> if none)

JsonSyntaxError == <<"Unexpected", " ", "token", " ", "<">>
NoChoicesError == <<"Cannot", " ", "read", " ", "properties", " ", "of", " ", "undefined">>

\* await fetch(GROQ_API_URL, ...) and the reading of the response, lines 17-42.
callGroqAPI(resp) ==
    IF resp.fetch = "rejected" THEN Err("groq", FetchFailed)
    ELSE IF ~resp.ok THEN
        LET errorData == IF resp.json = "valid" THEN resp.errorMessage ELSE <<>>
            detail    == IF errorData # <<>> THEN errorData ELSE resp.statusText
        IN  Err("groq", <<"Groq API error: ", resp.status, " - ">> \o detail)
    ELSE IF resp.json # "valid" THEN Err("groq", JsonSyntaxError)
    ELSE IF resp.choices = "absent" THEN Err("groq", NoChoicesError)
    ELSE IF resp.choices = "empty" THEN Ok(<<>>)
    ELSE Ok(resp.content)

(***************************************************************************)
(* Provider texts: sequences of lexical tokens.                            *)
(***************************************************************************)
WS == [k |-> "ws"]            \* a run of white space
FENCE == [k |-> "fence"]      \* the three characters ```
JSONWORD == [k |-> "json"]    \* the four characters json
PROSE == [k |-> "prose"]      \* text that is no JSON, e.g. Great job, 90/100
NULLLIT == [k |-> "null"]     \* the JSON literal null
NUMLIT == [k |-> "num"]       \* a JSON number literal, e.g. 85
OBJ(o) == [k |-> "obj", o |-> o]   \* the JSON text of the object o

(***************************************************************************)
(* JavaScript values as far as gradeSubmission reads them.                 *)
(***************************************************************************)
Undefined == [ty |-> "undefined"]      \* also: the field is absent
JNull == [ty |-> "null"]
NaN == [ty |-> "nan"]
Num(n) == [ty |-> "number", n |-> n]
Str(s) == [ty |-> "string", s |-> s]

\* ToBoolean, as the operator || applies it.
Truthy(v) ==
    CASE v.ty = "number" -> v.n # 0
      [] v.ty = "string" -> v.s # ""
      [] OTHER -> FALSE

\* a || b
OrElse(a, b) == IF Truthy(a) THEN a ELSE b

\* Number(v)
Number(v) ==
    CASE v.ty = "number" -> v
      [] v.ty = "null" -> Num(0)
      [] v.ty = "string" ->
            IF v.s = "" THEN Num(0)
            ELSE IF v.s = "85" THEN Num(85)
            ELSE NaN
      [] OTHER -> NaN

\* The object a JSON text denotes: the fields gradeSubmission reads.
JsonObject(grade, marks, final_marks, score, feedback, review) ==
    [ grade |-> grade, marks |-> marks, final_marks |-> final_marks,
      score |-> score, feedback |-> feedback, review |-> review,
      comments |-> Undefined, strengths |-> Undefined,
      improvements |-> Undefined, areas_for_improvement |-> Undefined ]

(***************************************************************************)
(* gradeSubmission's treatment of the provider text, lines 410-453.        *)
(***************************************************************************)
RECURSIVE TrimStart(_)
TrimStart(t) == IF t # <<>> /\ Head(t).k = "ws" THEN TrimStart(Tail(t)) ELSE t

RECURSIVE TrimEnd(_)
TrimEnd(t) ==
    IF t # <<>> /\ t[Len(t)].k = "ws" THEN TrimEnd(SubSeq(t, 1, Len(t) - 1)) ELSE t

\* String.prototype.trim
Trim(t) == TrimEnd(TrimStart(t))

\* cleanedResult.startsWith('```json'), .startsWith('```'), .endsWith('```')
StartsWithFenceJson(t) == Len(t) >= 2 /\ t[1].k = "fence" /\ t[2].k = "json"
StartsWithFence(t) == Len(t) >= 1 /\ t[1].k = "fence"
EndsWithFence(t) == Len(t) >= 1 /\ t[Len(t)].k = "fence"

\* Lines 413-422: the text JSON.parse is given.
\* Faulty variant: only the ```json fence is stripped.
CleanJsonFenceOnly(gradingResult) ==
    LET c0 == Trim(gradingResult)
        c1 == IF StartsWithFenceJson(c0) THEN SubSeq(c0, 3, Len(c0)) ELSE c0
        c2 == IF EndsWithFence(c1) THEN SubSeq(c1, 1, Len(c1) - 1) ELSE c1
    IN  Trim(c2)
Clean(gradingResult) ==
    LET c0 == Trim(gradingResult)
        c1 == IF StartsWithFenceJson(c0) THEN SubSeq(c0, 3, Len(c0))
              ELSE IF StartsWithFence(c0) THEN SubSeq(c0, 2, Len(c0))
              ELSE c0
        c2 == IF EndsWithFence(c1) THEN SubSeq(c1, 1, Len(c1) - 1) ELSE c1
    IN  Trim(c2)

\* JSON.parse: the value of a JSON text, or a SyntaxError.  White space
\* around the value is allowed; adjacent digits are one number.
JSONParse(t) ==
    LET v == Trim(t)
    IN  IF Len(v) = 1 /\ v[1].k = "obj" THEN [ok |-> TRUE, ty |-> "object", o |-> v[1].o]
        ELSE IF Len(v) = 1 /\ v[1].k = "null" THEN [ok |-> TRUE, ty |-> "null"]
        ELSE IF Len(v) >= 1 /\ \A i \in 1..Len(v) : v[i].k = "num"
            THEN [ok |-> TRUE, ty |-> "number"]
        ELSE [ok |-> FALSE]

Return(value) == [kind |-> "return", value |-> value]

\* Line 428: parsedResult.grade || .marks || .final_marks || .score || 0
ExtractGrade(o) ==
    OrElse(o.grade, OrElse(o.marks, OrElse(o.final_marks, OrElse(o.score, Num(0)))))

\* Line 429: parsedResult.feedback || .review || .comments || 'No feedback provided'
ExtractFeedback(o) ==
    OrElse(o.feedback, OrElse(o.review, OrElse(o.comments, Str("No feedback provided"))))

\* Lines 433-442.
ParsedFormat(o) ==
    Return([ success      |-> TRUE,
             grade        |-> Number(ExtractGrade(o)),
             feedback     |-> ExtractFeedback(o),
             strengths    |-> OrElse(o.strengths, Str("")),
             improvements |-> OrElse(o.improvements,
                                     OrElse(o.areas_for_improvement, Str(""))),
             final_marks  |-> Number(ExtractGrade(o)),
             review       |-> ExtractFeedback(o),
             message      |-> "Submission graded successfully" ])

\* Lines 445-452: the catch of the parse error.
TextFormat(gradingResult) ==
    Return([ success     |-> TRUE,
             grade       |-> Num(0),
             feedback    |-> gradingResult,
             final_marks |-> Num(0),
             review      |-> gradingResult,
             message     |-> "Submission graded successfully (text format)" ])

\* A parsed value that is no object has none of the fields.
NoFields ==
    JsonObject(Undefined, Undefined, Undefined, Undefined, Undefined, Undefined)

\* Lines 411-453: the inner try/catch.  Reading a field of null throws a
\* TypeError inside the try, which the same catch handles.
GradeFromText(gradingResult) ==
    LET parsedResult == JSONParse(Clean(gradingResult))
    IN  IF ~parsedResult.ok THEN TextFormat(gradingResult)
        ELSE IF parsedResult.ty = "null" THEN TextFormat(gradingResult)
        ELSE IF parsedResult.ty = "object" THEN ParsedFormat(parsedResult.o)
        ELSE ParsedFormat(NoFields)

(***************************************************************************)
(* The document services, applied to what generateWithFallback returned    *)
(* or threw.                                                               *)
(***************************************************************************)
\* Lines 346-365.
generateDocument(o) ==
    IF o.kind = "ok"
    THEN Return([ success           |-> TRUE,
                  generated_content |-> o.text,
                  message           |-> "Assignment generated successfully" ])
    ELSE Err("generateDocument", <<"Failed to generate document: ">> \o o.msg)

\* Lines 483-501.
generateAnswers(o) ==
    IF o.kind = "ok"
    THEN Return([ success           |-> TRUE,
                  generated_answers |-> o.text,
                  message           |-> "Model answers generated successfully" ])
    ELSE Err("generateAnswers", <<"Failed to generate answers: ">> \o o.msg)

\* Lines 406-457.
\* Faulty variant: a provider failure is graded as text.
gradeSubmissionSwallow(o) ==
    IF o.kind = "ok" THEN GradeFromText(o.text) ELSE TextFormat(<<>>)
gradeSubmission(o) ==
    IF o.kind = "ok"
    THEN GradeFromText(o.text)
    ELSE Err("gradeSubmission", <<"Failed to grade submission: ">> \o o.msg)

Service(k, o) ==
    CASE k = "generateDocument" -> generateDocument(o)
      [] k = "generateAnswers" -> generateAnswers(o)
      [] k = "gradeSubmission" -> gradeSubmission(o)

\* The prompt a service builds from its template (lines 330-342, 372-404,
\* 466-479); the caller's arguments are left out.
Prompt(k) == <<"prompt of", k>>

(***************************************************************************)
(* What the providers may answer.                                          *)
(***************************************************************************)
Good85 == JsonObject(Num(85), Undefined, Undefined, Undefined, Str("Good"), Undefined)

ProviderTexts ==
    { <<PROSE>>,
      <<FENCE, JSONWORD, WS, OBJ(Good85), WS, FENCE>> }

GroqResponses ==
    { GroqResponse("rejected", FALSE, "0", <<>>, "invalid", <<>>, "absent", <<>>),
      GroqResponse("ok", FALSE, "401", <<"Unauthorized">>, "valid",
                   <<"Invalid", " ", "API", " ", "Key">>, "absent", <<>>),
      GroqResponse("ok", FALSE, "503", <<"Service", " ", "Unavailable">>, "invalid",
                   <<>>, "absent", <<>>),
      GroqResponse("ok", TRUE, "200", <<"OK">>, "invalid", <<>>, "absent", <<>>),
      GroqResponse("ok", TRUE, "200", <<"OK">>, "valid", <<>>, "absent", <<>>),
      GroqResponse("ok", TRUE, "200", <<"OK">>, "valid", <<>>, "empty", <<>>) }
    \cup { GroqResponse("ok", TRUE, "200", <<"OK">>, "valid", <<>>, "one", t) :
             t \in ProviderTexts }

(***************************************************************************)
(* generateWithFallback, lines 46-88, one action per resumption.           *)
(***************************************************************************)
\* The error the catch clause of the call c has bound (line 55).
\* Faulty variant: the caught error is kept in one place shared by all calls.
CaughtOfLastFailure(c) ==
    IF \E d \in Calls \ {c} : geminiOut[d].kind = "error"
    THEN geminiOut[CHOOSE d \in Calls \ {c} : geminiOut[d].kind = "error"]
    ELSE geminiOut[c]
Caught(c) == geminiOut[c]

\* Lines 66-87: what the call returns or throws once callGroqAPI settled.
\* Faulty variant: the combined error is thrown on both branches.
AfterGroqAlwaysCombined(quota, geminiErr, groq) ==
    IF groq.kind = "ok" THEN Ok(groq.text)
    ELSE Err("generateWithFallback", BothFailedMessage(geminiErr.msg, groq.msg))
\* Faulty variant: Groq's text is returned on the quota branch only.
AfterGroqThrowsGroq(quota, geminiErr, groq) ==
    IF groq.kind = "ok" /\ quota THEN Ok(groq.text)
    ELSE IF quota
    THEN Err("generateWithFallback", BothFailedMessage(geminiErr.msg, groq.msg))
    ELSE geminiErr
AfterGroq(quota, geminiErr, groq) ==
    IF groq.kind = "ok" THEN Ok(groq.text)
    ELSE IF quota
    THEN Err("generateWithFallback", BothFailedMessage(geminiErr.msg, groq.msg))
    ELSE geminiErr

Request(c, provider) == [call |-> c, provider |-> provider]
Invocation(provider, prompt) == [provider |-> provider, prompt |-> prompt]

Init ==
    /\ IdleDoc
    /\ IdleFile
    /\ IdleMeeting
    /\ IdleUpload

\* A caller calls the service k: the service builds its prompt and calls
\* generateWithFallback, which runs up to its first await (line 50).
\* Faulty variant: both providers are requested at once.
CallRacing(c, k) ==
    /\ pc[c] \in {"idle", "done"}
    /\ started < MaxStarted
    /\ started' = started + 1
    /\ pc' = [pc EXCEPT ![c] = "gemini"]
    /\ svc' = [svc EXCEPT ![c] = k]
    /\ geminiOut' = [geminiOut EXCEPT ![c] = None]
    /\ groqResp' = [groqResp EXCEPT ![c] = None]
    /\ orch' = [orch EXCEPT ![c] = None]
    /\ result' = [result EXCEPT ![c] = None]
    /\ invoked' = [invoked EXCEPT ![c] =
                      <<Invocation("A", Prompt(k)), Invocation("B", Prompt(k))>>]
    /\ inflight' = inflight \cup {Request(c, "A"), Request(c, "B")}
Call(c, k) ==
    /\ pc[c] \in {"idle", "done"}
    /\ started < MaxStarted
    /\ started' = started + 1
    /\ pc' = [pc EXCEPT ![c] = "gemini"]
    /\ svc' = [svc EXCEPT ![c] = k]
    /\ geminiOut' = [geminiOut EXCEPT ![c] = None]
    /\ groqResp' = [groqResp EXCEPT ![c] = None]
    /\ orch' = [orch EXCEPT ![c] = None]
    /\ result' = [result EXCEPT ![c] = None]
    /\ invoked' = [invoked EXCEPT ![c] = <<Invocation("A", Prompt(k))>>]
    /\ inflight' = inflight \cup {Request(c, "A")}

\* Lines 50-54: Provider A answered with a text, which is returned.
\* Faulty variant: Groq is requested although Gemini answered.
GeminiResolvedWarmsGroq(c, text) ==
    /\ pc[c] = "gemini"
    /\ geminiOut' = [geminiOut EXCEPT ![c] = Ok(text)]
    /\ orch' = [orch EXCEPT ![c] = Ok(text)]
    /\ pc' = [pc EXCEPT ![c] = "returned"]
    /\ inflight' = inflight \ {Request(c, "A")}
    /\ invoked' = [invoked EXCEPT ![c] = Append(@, Invocation("B", Prompt(svc[c])))]
    /\ UNCHANGED <<svc, groqResp, result, started>>
GeminiResolved(c, text) ==
    /\ pc[c] = "gemini"
    /\ geminiOut' = [geminiOut EXCEPT ![c] = Ok(text)]
    /\ orch' = [orch EXCEPT ![c] = Ok(text)]
    /\ pc' = [pc EXCEPT ![c] = "returned"]
    /\ inflight' = inflight \ {Request(c, "A")}
    /\ UNCHANGED <<svc, groqResp, result, invoked, started>>

\* Lines 55-69 and 78-80: Provider A threw; the error is classified and
\* callGroqAPI is called on either branch, running up to its fetch.
\* Faulty variant: a quota-class failure of Gemini is retried once.
GeminiRejectedRetry(c, msg) ==
    /\ pc[c] = "gemini"
    /\ geminiOut' = [geminiOut EXCEPT ![c] = Err("gemini", msg)]
    /\ IF isQuotaError(msg) /\ Len(invoked[c]) < 2
       THEN /\ pc' = pc
            /\ invoked' = [invoked EXCEPT ![c] =
                              Append(@, Invocation("A", Prompt(svc[c])))]
            /\ inflight' = inflight
       ELSE /\ pc' = [pc EXCEPT ![c] =
                         IF isQuotaError(msg) THEN "groqQuota" ELSE "groqOther"]
            /\ invoked' = [invoked EXCEPT ![c] =
                              Append(@, Invocation("B", Prompt(svc[c])))]
            /\ inflight' = (inflight \ {Request(c, "A")}) \cup {Request(c, "B")}
    /\ UNCHANGED <<svc, groqResp, orch, result, started>>
GeminiRejected(c, msg) ==
    /\ pc[c] = "gemini"
    /\ geminiOut' = [geminiOut EXCEPT ![c] = Err("gemini", msg)]
    /\ pc' = [pc EXCEPT ![c] =
                 IF isQuotaError(msg) THEN "groqQuota" ELSE "groqOther"]
    /\ invoked' = [invoked EXCEPT ![c] =
                      Append(@, Invocation("B", Prompt(svc[c])))]
    /\ inflight' = (inflight \ {Request(c, "A")}) \cup {Request(c, "B")}
    /\ UNCHANGED <<svc, groqResp, orch, result, started>>

\* Lines 69-76 and 80-86: the fetch of callGroqAPI settled with resp.
GroqSettled(c, resp) ==
    /\ pc[c] \in {"groqQuota", "groqOther"}
    /\ groqResp' = [groqResp EXCEPT ![c] = resp]
    /\ orch' = [orch EXCEPT ![c] =
                   AfterGroq(pc[c] = "groqQuota", Caught(c), callGroqAPI(resp))]
    /\ pc' = [pc EXCEPT ![c] = "returned"]
    /\ inflight' = inflight \ {Request(c, "B")}
    /\ UNCHANGED <<svc, geminiOut, result, invoked, started>>

\* The service resumes from its await of generateWithFallback.
ServiceResume(c) ==
    /\ pc[c] = "returned"
    /\ result' = [result EXCEPT ![c] = Service(svc[c], orch[c])]
    /\ pc' = [pc EXCEPT ![c] = "done"]
    /\ UNCHANGED <<svc, geminiOut, groqResp, orch, invoked, inflight, started>>

Next ==
    \/ \E c \in Calls, k \in Services :
          Call(c, k) /\ UNCHANGED <<fileVars, meetVars, uploadVars>>
    \/ \E c \in Calls, text \in ProviderTexts :
          GeminiResolved(c, text) /\ UNCHANGED <<fileVars, meetVars, uploadVars>>
    \/ \E c \in Calls, msg \in GeminiMessages :
          GeminiRejected(c, msg) /\ UNCHANGED <<fileVars, meetVars, uploadVars>>
    \/ \E c \in Calls, resp \in GroqResponses :
          GroqSettled(c, resp) /\ UNCHANGED <<fileVars, meetVars, uploadVars>>
    \/ \E c \in Calls :
          ServiceResume(c) /\ UNCHANGED <<fileVars, meetVars, uploadVars>>

Spec == Init /\ [][Next]_vars

(***************************************************************************)
(* The grader alone: generateWithFallback has returned a provider text to  *)
(* gradeSubmission, which resumes and treats it.                           *)
(***************************************************************************)
Tokens == {WS, FENCE, JSONWORD, PROSE, NULLLIT, NUMLIT, OBJ(Good85)}

GradeValues == {Undefined, Num(0), Num(40), Num(85), Str("85"), Str("A")}
FeedbackValues == {Undefined, JNull, Str(""), Str("Good")}
ReviewValues == {Undefined, Str("Fine")}

\* The text of the object o, bare or inside a fence.
Wrapped(w, o) ==
    CASE w = "bare" -> <<OBJ(o)>>
      [] w = "fence" -> <<FENCE, OBJ(o), FENCE>>
      [] w = "json fence" -> <<FENCE, JSONWORD, WS, OBJ(o), WS, FENCE>>

Wrappings == {"bare", "fence", "json fence"}

InitWith(text) ==
    /\ pc = [c \in Calls |-> IF c = "c1" THEN "returned" ELSE "idle"]
    /\ svc = [c \in Calls |-> IF c = "c1" THEN "gradeSubmission" ELSE "none"]
    /\ geminiOut = [c \in Calls |-> IF c = "c1" THEN Ok(text) ELSE None]
    /\ groqResp = [c \in Calls |-> None]
    /\ orch = [c \in Calls |-> IF c = "c1" THEN Ok(text) ELSE None]
    /\ result = [c \in Calls |-> None]
    /\ invoked = [c \in Calls |->
                     IF c = "c1" THEN <<Invocation("A", Prompt("gradeSubmission"))>>
                     ELSE <<>>]
    /\ inflight = {}
    /\ started = 1
    /\ IdleFile
    /\ IdleMeeting
    /\ IdleUpload

InitGrade ==
    \/ \E n \in 0..MaxTextLen : \E text \in [1..n -> Tokens] : InitWith(text)
    \/ \E g \in GradeValues, m \in GradeValues, f \in GradeValues, s \in GradeValues,
          fb \in FeedbackValues, rv \in ReviewValues, w \in Wrappings :
            InitWith(Wrapped(w, JsonObject(g, m, f, s, fb, rv)))

NextGrade == \E c \in Calls : ServiceResume(c) /\ UNCHANGED <<fileVars, meetVars, uploadVars>>

SpecGrade == InitGrade /\ [][NextGrade]_vars

(***************************************************************************)
(* Properties.                                                             *)
(***************************************************************************)
\* generateWithFallback of the call c has returned or thrown.
Finished(c) == pc[c] \in {"returned", "done"}

AFailed(c) == geminiOut[c].kind = "error"
ASucceeded(c) == geminiOut[c].kind = "ok"

\* Provider B was awaited by the call c and has settled; what it gave.
BSettled(c) == groqResp[c].kind = "response"
BOut(c) == callGroqAPI(groqResp[c])
BFailed(c) == BSettled(c) /\ BOut(c).kind = "error"
BSucceeded(c) == BSettled(c) /\ BOut(c).kind = "ok"

\* The six markers, as the claims list them.
ClaimMarkers ==
    { <<"quota">>, <<"429">>, <<"rate">>,
      <<"Resource", " ", "has", " ", "been", " ", "exhausted">>,
      <<"not", " ", "found">>, <<"not", " ", "supported">> }
HasMarker(msg) == \E m \in ClaimMarkers : Includes(msg, m)

Times(c, provider) ==
    Cardinality({i \in 1..Len(invoked[c]) : invoked[c][i].provider = provider})

\* C1: if Provider A succeeds, generateWithFallback returns exactly Provider
\* A's text, and Provider B is not invoked during that call: no request to B
\* is in its invocation log or in flight for it.
C1_AOnly ==
    \A c \in Calls :
        ASucceeded(c) =>
            /\ Finished(c)
            /\ orch[c] = Ok(geminiOut[c].text)
            /\ Times(c, "B") = 0
            /\ Request(c, "B") \notin inflight

\* A call answered by Provider A, while the other call is waiting for B.
C1_Witness ==
    \E c \in Calls, d \in Calls :
        /\ pc[c] = "done" /\ ASucceeded(c) /\ result[c].kind = "return"
        /\ Request(d, "B") \in inflight

\* C2: whenever Provider A fails and Provider B succeeds, the call returns
\* Provider B's text, whether or not A's message carries a marker.
C2_BText ==
    \A c \in Calls :
        (Finished(c) /\ AFailed(c) /\ BSucceeded(c)) => orch[c] = Ok(BOut(c).text)

\* Both classifications at once: one call whose A error has a marker, one
\* whose A error has none, both answered by B.
C2_Witness ==
    \E c \in Calls, d \in Calls :
        /\ Finished(c) /\ AFailed(c) /\ BSucceeded(c) /\ HasMarker(geminiOut[c].msg)
        /\ Finished(d) /\ AFailed(d) /\ BSucceeded(d) /\ ~HasMarker(geminiOut[d].msg)

\* C3: if Provider A's message contains a marker and Provider B fails too,
\* the error generateWithFallback throws contains A's message and B's.
C3_BothMessages ==
    \A c \in Calls :
        (Finished(c) /\ AFailed(c) /\ HasMarker(geminiOut[c].msg) /\ BFailed(c)) =>
            /\ orch[c].kind = "error"
            /\ Includes(orch[c].msg, geminiOut[c].msg)
            /\ Includes(orch[c].msg, BOut(c).msg)

C3_Witness ==
    \E c \in Calls :
        /\ pc[c] = "done" /\ AFailed(c) /\ BFailed(c)
        /\ Includes(geminiOut[c].msg, <<"rate">>)
        /\ orch[c].src = "generateWithFallback"

\* C4 as stated: if Provider A's message contains no marker and Provider B
\* fails too, the error thrown is A's original error and B's message does
\* not appear in it.
C4_BMessageAbsent ==
    \A c \in Calls :
        (Finished(c) /\ AFailed(c) /\ ~HasMarker(geminiOut[c].msg) /\ BFailed(c)) =>
            /\ orch[c] = geminiOut[c]
            /\ ~Includes(orch[c].msg, BOut(c).msg)

\* C4 as it holds: in that case the error thrown is Provider A's original
\* error, its message unchanged; B's message is not added to it, so it
\* occurs in the error only where A's own message contains it.
C4_OriginalError ==
    \A c \in Calls :
        (Finished(c) /\ AFailed(c) /\ ~HasMarker(geminiOut[c].msg) /\ BFailed(c)) =>
            /\ orch[c] = geminiOut[c]
            /\ orch[c].src = "gemini"
            /\ orch[c].msg = geminiOut[c].msg

C4_Witness ==
    \E c \in Calls :
        /\ pc[c] = "done" /\ AFailed(c) /\ BFailed(c)
        /\ ~HasMarker(geminiOut[c].msg)
        /\ ~Includes(geminiOut[c].msg, BOut(c).msg)
        /\ orch[c] = geminiOut[c]

\* C5: within one call the request to Provider B is issued only after
\* Provider A's attempt has settled as a failure; the two requests of one
\* call are never in flight together.
C5_NoRacing ==
    \A c \in Calls :
        /\ ~(Request(c, "A") \in inflight /\ Request(c, "B") \in inflight)
        /\ Request(c, "B") \in inflight => AFailed(c)
        /\ Times(c, "B") > 0 => AFailed(c)

\* One call waits for B while the other waits for A.
C5_Witness ==
    \E c \in Calls, d \in Calls :
        /\ Request(c, "B") \in inflight /\ AFailed(c)
        /\ Request(d, "A") \in inflight

\* C6: in one call Provider A is attempted exactly once and Provider B at
\* most once, exactly once when A failed; nothing is retried on either
\* branch of the classification.
C6_OneAttempt ==
    \A c \in Calls :
        /\ pc[c] # "idle" => Times(c, "A") = 1
        /\ Times(c, "B") <= 1
        /\ Finished(c) => Times(c, "B") = (IF AFailed(c) THEN 1 ELSE 0)

\* Both branches finished with both providers failing.
C6_Witness ==
    \E c \in Calls, d \in Calls :
        /\ pc[c] = "done" /\ AFailed(c) /\ BFailed(c) /\ HasMarker(geminiOut[c].msg)
        /\ pc[d] = "done" /\ AFailed(d) /\ BFailed(d) /\ ~HasMarker(geminiOut[d].msg)

\* What generateWithFallback gives for the provider outcomes of the call c
\* alone, and what the service of c makes of it.
OwnOrch(c) ==
    IF ASucceeded(c) THEN Ok(geminiOut[c].text)
    ELSE AfterGroq(HasMarker(geminiOut[c].msg), geminiOut[c], BOut(c))
OwnResult(c) == Service(svc[c], OwnOrch(c))

\* C7: two document-service calls running interleaved do not interfere: what
\* each call returns or throws is determined by the provider outcomes of its
\* own requests alone, at every interleaving of the suspension points, and
\* whatever other calls did before, failures included, every call begins
\* with Provider A.
C7_Independent ==
    \A c \in Calls :
        /\ Finished(c) => orch[c] = OwnOrch(c)
        /\ pc[c] = "done" => result[c] = OwnResult(c)
        /\ pc[c] # "idle" => invoked[c][1] = Invocation("A", Prompt(svc[c]))

\* Both calls are suspended: c has thrown to its service, which has not
\* resumed yet, after both of its providers failed; d caught another error
\* of Provider A and is waiting for Provider B.
C7_Witness ==
    \E c \in Calls, d \in Calls :
        /\ pc[c] = "returned" /\ AFailed(c) /\ BFailed(c)
        /\ pc[d] \in {"groqQuota", "groqOther"} /\ AFailed(d)
        /\ geminiOut[c] # geminiOut[d]
        /\ started = MaxStarted

\* C8: when both providers fail, generateDocument, generateAnswers and
\* gradeSubmission each throw an error that carries the message of the
\* orchestrator's error; none returns a result, so the degraded grading
\* result (grade 0) is not produced for a provider failure.
C8_FailureSurfaced ==
    \A c \in Calls :
        (pc[c] = "done" /\ AFailed(c) /\ BFailed(c)) =>
            /\ orch[c].kind = "error"
            /\ result[c].kind = "error"
            /\ result[c].src = svc[c]
            /\ Includes(result[c].msg, orch[c].msg)
            /\ Len(result[c].msg) = Len(orch[c].msg) + 1

\* gradeSubmission and another service have both thrown.
C8_Witness ==
    \E c \in Calls, d \in Calls :
        /\ svc[c] = "gradeSubmission" /\ svc[d] # "gradeSubmission"
        /\ pc[c] = "done" /\ AFailed(c) /\ BFailed(c) /\ result[c].kind = "error"
        /\ pc[d] = "done" /\ AFailed(d) /\ BFailed(d) /\ result[d].kind = "error"

(***************************************************************************)
(* Properties of the grader, stated for the call c1 of SpecGrade.          *)
(***************************************************************************)
Graded == pc["c1"] = "done" /\ svc["c1"] = "gradeSubmission" /\ orch["c1"].kind = "ok"
ProviderText == orch["c1"].text
Grading == result["c1"]

AllWS(t) == \A i \in 1..Len(t) : t[i].k = "ws"
KindsOf(t) == [i \in 1..Len(t) |-> t[i].k]

\* t is the text of one JSON object, optionally after a leading ```json or
\* ``` fence and optionally before a trailing ``` fence, white space allowed
\* around the fences and the object; i is the place of the object.
FencedObjectAt(t, i) ==
    /\ i \in 1..Len(t)
    /\ t[i].k = "obj"
    /\ \E a \in 0..(i - 1), b \in 0..(i - 1) :
          /\ a <= b
          /\ AllWS(SubSeq(t, 1, a))
          /\ KindsOf(SubSeq(t, a + 1, b)) \in {<<>>, <<"fence">>, <<"fence", "json">>}
          /\ AllWS(SubSeq(t, b + 1, i - 1))
    /\ \E a \in i..Len(t), b \in i..Len(t) :
          /\ a <= b
          /\ AllWS(SubSeq(t, i + 1, a))
          /\ KindsOf(SubSeq(t, a + 1, b)) \in {<<>>, <<"fence">>}
          /\ AllWS(SubSeq(t, b + 1, Len(t)))

\* C9: given the text of a JSON object, optionally inside a leading ```json
\* or ``` fence and a trailing ``` fence, gradeSubmission returns the result
\* built from the parsed object, with the object's grade (a number other
\* than 0) and feedback (not empty); given a text that does not parse
\* as JSON once the fences are stripped, it returns, without failing, a
\* result with grade 0 and the unmodified provider text as feedback.
C9_FenceAndFallback ==
    Graded =>
        /\ \A i \in 1..Len(ProviderText) :
              FencedObjectAt(ProviderText, i) =>
                  LET o == ProviderText[i].o
                  IN  /\ Grading.kind = "return"
                      /\ Grading.value.success
                      /\ Grading.value.message = "Submission graded successfully"
                      /\ Grading = ParsedFormat(o)
                      /\ (o.grade.ty = "number" /\ o.grade.n # 0) =>
                              Grading.value.grade = o.grade
                      /\ (o.feedback.ty = "string" /\ o.feedback.s # "") =>
                              Grading.value.feedback = o.feedback
        /\ ~JSONParse(Clean(ProviderText)).ok =>
              /\ Grading.kind = "return"
              /\ Grading.value.success
              /\ Grading.value.grade = Num(0)
              /\ Grading.value.feedback = ProviderText

\* The fenced object of the specification's example has been graded.
C9_Witness ==
    /\ Graded
    /\ ProviderText = <<FENCE, JSONWORD, WS, OBJ(Good85), WS, FENCE>>
    /\ Grading.value.grade = Num(85)
    /\ Grading.value.feedback = Str("Good")

\* The first of the fields grade, marks, final_marks, score that is present
\* in the object o, and 0 if none is.
FirstPresent(o) ==
    IF o.grade # Undefined THEN o.grade
    ELSE IF o.marks # Undefined THEN o.marks
    ELSE IF o.final_marks # Undefined THEN o.final_marks
    ELSE IF o.score # Undefined THEN o.score
    ELSE Num(0)

\* C10: for a parsed JSON object the grade returned is the value of the
\* field grade when that field is present, otherwise the value of the first
\* present field among marks, final_marks, score, and 0 only if none of the
\* four is present.
C10_FirstPresentField ==
    (Graded /\ JSONParse(Clean(ProviderText)).ok
            /\ JSONParse(Clean(ProviderText)).ty = "object") =>
        Grading.value.grade = Number(FirstPresent(JSONParse(Clean(ProviderText)).o))

(***************************************************************************)
(* The OCR router extractText (src/unnamed/part_000, lines 152-323).       *)
(*                                                                         *)
(* A File has a name (the parts between its dots), a declared content      *)
(* type, a size in bytes and a content: the texts an OCR pass reads off    *)
(* its pages, each a sequence of tokens (an image is its single page).     *)
(***************************************************************************)
MaxPages == 2            \* pages of a file given to extractText

\* Lines 156-158.
supportedImageTypes ==
    {"image/jpeg", "image/jpg", "image/png", "image/gif", "image/webp"}
supportedDocumentTypes == {"application/pdf"}
allSupportedTypes == supportedImageTypes \cup supportedDocumentTypes

\* Line 160: allSupportedTypes.includes(file.type)
\* Faulty variant: every declared type is taken.
isSupportedAny(type) == TRUE
isSupported(type) == type \in allSupportedTypes

\* Line 257.
maxSize == 10 * 1024 * 1024

\* Line 258: file.size > maxSize
\* Faulty variant: a file of exactly maxSize bytes is refused too.
tooLargeAtLimit(size) == size >= maxSize
tooLarge(size) == size > maxSize

\* String.prototype.startsWith, for a prefix that is one chunk.
StartsWith(msg, prefix) == Len(msg) >= 1 /\ msg[1] = prefix

\* The messages of the errors thrown by lines 161, 228, 244, 247, 259, 281,
\* 302, 306, 310 and 321.
UnsupportedMessage(type) ==
    <<"Unsupported file type", ": ", type,
      ". Please use JPEG, PNG, GIF, WebP images or PDF documents.">>
PdfEmptyMessage ==
    <<"No text was extracted",
      " from the PDF. Please ensure the document contains readable text.">>
PdfInvalidMessage ==
    <<"Invalid or corrupted PDF file. Please try a different document.">>
PdfFailedMessage(msg) == <<"Failed to extract text", " from PDF: ">> \o msg
TooLargeMessage ==
    <<"File size too large", ". Please use files smaller than 10MB.">>
ImageEmptyMessage ==
    <<"No text was extracted",
      " from the image. Please ensure the image contains readable text.">>
TimedOutMessage ==
    <<"OCR processing timed out. Please try again with a smaller file.">>
WorkerMessage ==
    <<"OCR ", "worker",
      " failed to initialize. Please refresh the page and try again.">>
ImageInvalidMessage ==
    <<"Invalid or corrupted image file. Please try a different image.">>
ImageFailedMessage(msg) ==
    <<"Failed to extract text", " from the image: ">>
        \o (IF msg = <<>> THEN <<"Unknown error occurred">> ELSE msg)
        \o <<". Please try with a different image.">>

\* Lines 241-249: the catch clause of extractTextFromPDF.
PdfCatch(msg) ==
    IF Includes(msg, <<"Invalid PDF">>)
    THEN Err("extractTextFromPDF", PdfInvalidMessage)
    ELSE Err("extractTextFromPDF", PdfFailedMessage(msg))

\* Lines 297-322: the catch clause of extractTextFromImage.
ImageCatch(msg) ==
    IF Includes(msg, <<"timeout">>)
    THEN Err("extractTextFromImage", TimedOutMessage)
    ELSE IF Includes(msg, <<"worker">>)
    THEN Err("extractTextFromImage", WorkerMessage)
    ELSE IF Includes(msg, <<"invalid">>) \/ Includes(msg, <<"corrupt">>)
    THEN Err("extractTextFromImage", ImageInvalidMessage)
    ELSE IF \/ StartsWith(msg, "Unsupported file type")
            \/ StartsWith(msg, "File size too large")
            \/ StartsWith(msg, "No text was extracted")
    THEN Err("extractTextFromImage", msg)
    ELSE Err("extractTextFromImage", ImageFailedMessage(msg))

\* Lines 235-239 and 290-294.
FileInfo(f) == [name |-> f.name, type |-> f.type, size |-> f.size]

\* The header of a page in allExtractedText, --- Page n ---
PageHeader(n) == [k |-> "page", n |-> n]

\* Lines 222-224: what one recognized page adds to allExtractedText.
WithPage(all, n, text) ==
    IF Trim(text) # <<>>
    THEN all \o <<WS, PageHeader(n), WS>> \o Trim(text) \o <<WS>>
    ELSE all

\* Lines 227-240: the end of extractTextFromPDF once the loop is over; the
\* throw of line 228 is inside the try block and reaches the catch clause.
PdfFinish(f, all) ==
    IF Trim(all) = <<>>
    THEN PdfCatch(PdfEmptyMessage)
    ELSE Return([success |-> TRUE,
                 extracted_text |-> Trim(all),
                 message |-> <<"Text extracted successfully from PDF ",
                               "using client-side OCR">>,
                 file_info |-> FileInfo(f)])

\* Lines 280-296: extractTextFromImage once recognize has resolved.
ImageFinish(f, text, confidence) ==
    IF text = <<>> \/ Len(Trim(text)) = 0
    THEN ImageCatch(ImageEmptyMessage)
    ELSE Return([success |-> TRUE,
                 extracted_text |-> Trim(text),
                 message |-> <<"Text extracted successfully using ",
                               "Tesseract.js (confidence: ", confidence, "%)">>,
                 file_info |-> FileInfo(f),
                 confidence |-> confidence])

\* What the libraries can throw: pdfjs on a broken document, Tesseract on a
\* time-out, a worker that does not start, an image it cannot decode; and
\* a failed load of a library.
PdfErrors == {<<"Invalid PDF", " structure.">>, <<"Worker was destroyed">>}
TesseractErrors ==
    {<<"recognize ", "timeout">>, <<"worker", " did not start">>,
     <<"invalid", " image data">>, <<"corrupt", " JPEG data">>,
     <<"Failed to fetch">>, <<>>}
ImportErrors == {<<"Failed to fetch dynamically imported module">>}

Confidences == {25, 95}

\* The files of the model.
FileTypes ==
    allSupportedTypes \cup {"image/avif", "text/plain", ""}
FileSizes == {0, maxSize - 1, maxSize, maxSize + 1}
PageTexts == {<<>>, <<WS>>, <<WS, PROSE, WS>>}
FileNames ==
    {<<"report", "pdf">>, <<"report", "PDF">>, <<"scan", "v2", "png">>,
     <<"pdf">>, <<"notes", "txt">>, <<"notes", "">>, <<"photo", "Jpeg">>,
     <<"setup", "exe">>}

File(name, type, size, content) ==
    [name |-> name, type |-> type, size |-> size, content |-> content]

\* extractText is called with a file and runs up to its first await:
\* lines 160-162, then 166-169, then 177-181 or 257-266.
ExtractText ==
    /\ ocrPc = "idle"
    /\ IF ~isSupported(file.type)
       THEN /\ ocrResult' = Err("extractText", UnsupportedMessage(file.type))
            /\ ocrPc' = "done"
            /\ ocrLog' = ocrLog
       ELSE IF file.type \in supportedDocumentTypes
       THEN /\ ocrLog' = <<"import pdfjs-dist", "import pdf.worker",
                           "import tesseract.js">>
            /\ ocrPc' = "pdfImports"
            /\ ocrResult' = ocrResult
       ELSE IF tooLarge(file.size)
       THEN /\ ocrResult' = Err("extractTextFromImage", TooLargeMessage)
            /\ ocrPc' = "done"
            /\ ocrLog' = ocrLog
       ELSE /\ ocrLog' = <<"import tesseract.js">>
            /\ ocrPc' = "imageImport"
            /\ ocrResult' = ocrResult
    /\ UNCHANGED <<file, pageNum, allExtractedText, validation>>

\* Lines 177-188: the three libraries are loaded; the file is read and
\* handed to getDocument.
PdfImported ==
    /\ ocrPc = "pdfImports"
    /\ ocrLog' = Append(ocrLog, "getDocument")
    /\ ocrPc' = "pdfOpen"
    /\ UNCHANGED <<file, pageNum, allExtractedText, ocrResult, validation>>

\* Lines 188-194: the document is open; the loop starts on page 1, or is
\* over at once when the document has no page.
PdfOpened ==
    /\ ocrPc = "pdfOpen"
    /\ allExtractedText' = <<>>
    /\ pageNum' = 1
    /\ IF Len(file.content) >= 1
       THEN /\ ocrLog' = ocrLog \o <<"document open", "recognize page">>
            /\ ocrPc' = "pdfPage"
            /\ ocrResult' = ocrResult
       ELSE /\ ocrResult' = PdfFinish(file, <<>>)
            /\ ocrPc' = "done"
            /\ ocrLog' = Append(ocrLog, "document open")
    /\ UNCHANGED <<file, validation>>

\* Lines 195-225: page pageNum is rendered and recognized; the next page
\* is started, or lines 227-240 end the call.
PdfPageRecognized ==
    /\ ocrPc = "pdfPage"
    /\ allExtractedText' =
           WithPage(allExtractedText, pageNum, file.content[pageNum])
    /\ pageNum' = pageNum + 1
    /\ IF pageNum + 1 <= Len(file.content)
       THEN /\ ocrLog' = ocrLog \o <<"page recognized", "recognize page">>
            /\ ocrPc' = ocrPc
            /\ ocrResult' = ocrResult
       ELSE /\ ocrResult' = PdfFinish(file, allExtractedText')
            /\ ocrPc' = "done"
            /\ ocrLog' = Append(ocrLog, "page recognized")
    /\ UNCHANGED <<file, validation>>

\* An await of extractTextFromPDF rejects with msg: the catch clause.
PdfFailed(msg) ==
    /\ ocrPc \in {"pdfImports", "pdfOpen", "pdfPage"}
    /\ ocrResult' = PdfCatch(msg)
    /\ ocrPc' = "done"
    /\ UNCHANGED <<file, pageNum, allExtractedText, ocrLog, validation>>

\* Lines 266-271: Tesseract is loaded and recognize is called on the file.
ImageImported ==
    /\ ocrPc = "imageImport"
    /\ ocrLog' = Append(ocrLog, "recognize image")
    /\ ocrPc' = "imageRecognize"
    /\ UNCHANGED <<file, pageNum, allExtractedText, ocrResult, validation>>

\* Lines 269-296: recognize resolved with the text of the image.
ImageRecognized(confidence) ==
    /\ ocrPc = "imageRecognize"
    /\ ocrResult' =
           ImageFinish(file,
                       IF file.content = <<>> THEN <<>> ELSE file.content[1],
                       confidence)
    /\ ocrPc' = "done"
    /\ ocrLog' = Append(ocrLog, "image recognized")
    /\ UNCHANGED <<file, pageNum, allExtractedText, validation>>

\* An await of extractTextFromImage rejects with msg: the catch clause.
ImageFailed(msg) ==
    /\ ocrPc \in {"imageImport", "imageRecognize"}
    /\ ocrResult' = ImageCatch(msg)
    /\ ocrPc' = "done"
    /\ UNCHANGED <<file, pageNum, allExtractedText, ocrLog, validation>>

InitOcr ==
    /\ IdleDoc
    /\ \E type \in FileTypes, size \in FileSizes, n \in 0..MaxPages :
          \E content \in [1..n -> PageTexts] :
             file = File(<<"scan", "v2", "png">>, type, size, content)
    /\ ocrPc = "idle"
    /\ pageNum = 0
    /\ allExtractedText = <<>>
    /\ ocrLog = <<>>
    /\ ocrResult = None
    /\ validation = None
    /\ IdleMeeting
    /\ IdleUpload

NextOcr ==
    \/ ExtractText /\ UNCHANGED <<docVars, meetVars, uploadVars>>
    \/ PdfImported /\ UNCHANGED <<docVars, meetVars, uploadVars>>
    \/ PdfOpened /\ UNCHANGED <<docVars, meetVars, uploadVars>>
    \/ PdfPageRecognized /\ UNCHANGED <<docVars, meetVars, uploadVars>>
    \/ \E msg \in ImportErrors \cup PdfErrors \cup TesseractErrors :
          PdfFailed(msg) /\ UNCHANGED <<docVars, meetVars, uploadVars>>
    \/ ImageImported /\ UNCHANGED <<docVars, meetVars, uploadVars>>
    \/ \E confidence \in Confidences :
          ImageRecognized(confidence) /\ UNCHANGED <<docVars, meetVars, uploadVars>>
    \/ \E msg \in ImportErrors \cup TesseractErrors :
          ImageFailed(msg) /\ UNCHANGED <<docVars, meetVars, uploadVars>>

SpecOcr == InitOcr /\ [][NextOcr]_vars

(***************************************************************************)
(* Claims on the OCR router, under SpecOcr.                                *)
(***************************************************************************)
OcrFailedWith(prefix) ==
    /\ ocrPc = "done"
    /\ ocrResult.kind = "error"
    /\ StartsWith(ocrResult.msg, prefix)

Recognitions ==
    {i \in 1..Len(ocrLog) : ocrLog[i] \in {"recognize page", "recognize image"}}

\* C11: extractText called on a file whose declared type is neither one of
\* the image types jpeg, jpg, png, gif, webp nor application/pdf fails with
\* the unsupported-file-type error, and no step of the PDF pipeline or of
\* the image pipeline is started for that file.
C11_UnsupportedRejected ==
    (/\ ocrPc # "idle"
     /\ file.type \notin {"image/jpeg", "image/jpg", "image/png", "image/gif",
                          "image/webp", "application/pdf"})
        => /\ OcrFailedWith("Unsupported file type")
           /\ ocrResult = Err("extractText", UnsupportedMessage(file.type))
           /\ ocrLog = <<>>

C11_Witness ==
    /\ file.type = "text/plain"
    /\ OcrFailedWith("Unsupported file type")
    /\ ocrLog = <<>>

\* C12: on the image path a file larger than 10 MiB fails with the
\* too-large error before any OCR step is started, while a file of exactly
\* 10 MiB or less is not refused for its size: the OCR pipeline is started
\* for it and recognize is called as soon as Tesseract is loaded.
C12_ImageSizeLimit ==
    (/\ ocrPc # "idle"
     /\ file.type \in {"image/jpeg", "image/jpg", "image/png", "image/gif",
                       "image/webp"})
        => IF file.size > 10 * 1024 * 1024
           THEN /\ OcrFailedWith("File size too large")
                /\ ocrLog = <<>>
           ELSE /\ ~OcrFailedWith("File size too large")
                /\ ocrLog # <<>>
                /\ ocrLog[1] = "import tesseract.js"
                /\ ocrPc = "imageRecognize" => Recognitions # {}

C12_Witness ==
    /\ file.type = "image/png"
    /\ file.size = 10 * 1024 * 1024
    /\ ocrPc = "done"
    /\ ocrResult.kind = "return"
    /\ Recognitions # {}

\* Recognition has gone through the whole file and read only blank text.
OnlyBlankRecognized ==
    /\ ocrPc = "done"
    /\ \A i \in 1..Len(file.content) : Trim(file.content[i]) = <<>>
    /\ IF file.type = "application/pdf"
       THEN /\ \E i \in 1..Len(ocrLog) : ocrLog[i] = "document open"
            /\ Cardinality({i \in 1..Len(ocrLog) : ocrLog[i] = "page recognized"})
                   = Len(file.content)
       ELSE \E i \in 1..Len(ocrLog) : ocrLog[i] = "image recognized"

\* C13: when recognition yields only blank text, extractText fails with the
\* empty-extraction error on the PDF path and on the image path alike: the
\* error that reaches the caller is the empty-extraction error itself (its
\* message starts with No text was extracted), not the generic
\* extraction-failure error.
C13_EmptyExtractionItself ==
    OnlyBlankRecognized
        => /\ OcrFailedWith("No text was extracted")
           /\ ~OcrFailedWith("Failed to extract text")

(***************************************************************************)
(* validateSubmissionFile (ClassMeeting.tsx, lines 559-585).               *)
(***************************************************************************)
\* Line 560.
submissionMaxSize == 10 * 1024 * 1024

\* Lines 561-569.
allowedTypes ==
    {"application/pdf", "image/png", "image/jpeg", "image/jpg", "image/gif",
     "image/webp", "image/avif"}

\* Line 576.
allowedExtensions == {"pdf", "png", "jpg", "jpeg", "gif", "webp", "avif"}

\* String.prototype.toLowerCase on the name parts of the model.
ToLowerCase(part) ==
    CASE part = "PDF" -> "pdf"
      [] part = "Jpeg" -> "jpeg"
      [] OTHER -> part

\* Line 577: file.name.split('.').pop()?.toLowerCase() || ''
\* Faulty variant: the extension is compared as it is written.
ExtensionAsWritten(name) == name[Len(name)]
Extension(name) == ToLowerCase(name[Len(name)])

\* Lines 575-578.
isValidType(f) ==
    f.type \in allowedTypes \/ Extension(f.name) \in allowedExtensions

\* Lines 559-585.
validateSubmissionFile(f) ==
    IF f.size > submissionMaxSize
    THEN [valid |-> FALSE, error |-> <<"File size exceeds 10MB limit">>]
    ELSE IF ~isValidType(f)
    THEN [valid |-> FALSE,
          error |-> <<"File type not supported. Use PDF or images.">>]
    ELSE [valid |-> TRUE]

\* A caller validates the file it holds.
ValidateSubmissionFile ==
    /\ validation = None
    /\ validation' = validateSubmissionFile(file)
    /\ UNCHANGED <<file, ocrPc, pageNum, allExtractedText, ocrLog, ocrResult>>

InitValidate ==
    /\ IdleDoc
    /\ \E name \in FileNames, type \in FileTypes, size \in FileSizes :
          file = File(name, type, size, <<>>)
    /\ ocrPc = "idle"
    /\ pageNum = 0
    /\ allExtractedText = <<>>
    /\ ocrLog = <<>>
    /\ ocrResult = None
    /\ validation = None
    /\ IdleMeeting
    /\ IdleUpload

NextValidate == ValidateSubmissionFile /\ UNCHANGED <<docVars, meetVars, uploadVars>>

SpecValidate == InitValidate /\ [][NextValidate]_vars

(***************************************************************************)
(* Claims on validateSubmissionFile, under SpecValidate.                   *)
(***************************************************************************)
ClaimTypes ==
    {"application/pdf", "image/png", "image/jpeg", "image/jpg", "image/gif",
     "image/webp", "image/avif"}

ClaimExtensions == {"pdf", "png", "jpg", "jpeg", "gif", "webp", "avif"}

\* C14, as stated: validateSubmissionFile returns valid exactly when the
\* size is at most 10 MiB and the declared content type is one of pdf, png,
\* jpeg/jpg, gif, webp, avif; it rejects every file larger than 10 MiB and
\* every file whose declared content type is outside that set.
C14_TypeAlone ==
    validation # None
        => (validation.valid <=> (/\ file.size <= 10 * 1024 * 1024
                                  /\ file.type \in ClaimTypes))

\* C14, amended: validateSubmissionFile returns valid exactly when the size
\* is at most 10 MiB and either the declared content type is in the set or
\* the text after the last dot of the file name (the whole name when it has
\* no dot), in lower case, is one of pdf, png, jpg, jpeg, gif, webp, avif;
\* it rejects every file larger than 10 MiB with the size error, and every
\* file whose content type and extension are both outside their sets.
C14_TypeOrExtension ==
    validation # None
        => /\ validation.valid
                <=> (/\ file.size <= 10 * 1024 * 1024
                     /\ \/ file.type \in ClaimTypes
                        \/ ToLowerCase(file.name[Len(file.name)])
                               \in ClaimExtensions)
           /\ file.size > 10 * 1024 * 1024
                => validation =
                       [valid |-> FALSE,
                        error |-> <<"File size exceeds 10MB limit">>]

C14_Witness ==
    /\ validation # None
    /\ validation.valid
    /\ file.size = 10 * 1024 * 1024
    /\ file.type \notin ClaimTypes
    /\ file.name = <<"report", "PDF">>

(***************************************************************************)
(* The class meeting component (ClassMeeting.tsx).  The file holds two     *)
(* components: the polling one (lines 1-185), which polls the backend and  *)
(* opens the meeting in a new tab, and the embedding one (lines 187-434),  *)
(* which shows the meeting in an iframe and listens to its messages.       *)
(*                                                                         *)
(* The backend functions createClassMeeting, getActiveClassMeeting,        *)
(* endMeeting and notifyClassAboutMeeting are imported (line 3): the       *)
(* backend keeps the set of active meetings of the class, and processes a  *)
(* request when it is issued; the response arrives later, in any order.    *)
(* A meeting is identified by a number from 1; 0 stands for null.          *)
(***************************************************************************)
MaxMeetings == 1         \* meeting records created in one behaviour
MaxPolls == 2            \* poll responses on the way at one time

Variants == {"polling", "embedding"}

\* The prop isTeacher of the component mounted by client c.
isTeacher(c) == c = "teacher"

\* Lines 18 and 204: useAuth() gives a user (TRUE) or none (FALSE).
Users == BOOLEAN

\* event.data?.type of a message event.
MessageTypes == {"MEETING_ENDED", "OTHER"}

\* The backend: the active meeting of the class, the latest one.
ActiveAtBackend ==
    IF meetings = {} THEN 0
    ELSE CHOOSE m \in meetings : \A n \in meetings : n <= m

\* What getActiveClassMeeting can resolve with.
GetActiveResponses ==
    {[data |-> ActiveAtBackend, error |-> FALSE], [data |-> 0, error |-> TRUE]}

\* The responses of getActiveClassMeeting on the way, with one more.
OnTheWay(c, resp) ==
    UNION {{<<d, r>> : r \in polls[d]} : d \in Clients} \cup {<<c, resp>>}

\* What createClassMeeting can settle with: a new record, an error, a throw.
CreateOutcomes ==
    (IF created < MaxMeetings THEN {"created"} ELSE {}) \cup {"error", "throw"}

\* What endMeeting and notifyClassAboutMeeting can settle with.
SettleOutcomes == {"ok", "throw"}

\* Lines 98 and 294: the spinner is rendered in place of the controls.
Spinner(c) ==
    IF variant = "polling"
    THEN isLoading[c] /\ activeMeeting[c] = 0
    ELSE isLoading[c]

\* Lines 303-356: the embedded meeting is rendered.
Embedded(c) ==
    variant = "embedding" /\ showMeeting[c] /\ activeMeeting[c] # 0

\* Lines 158-162 and 407-411: the Start button is rendered and enabled.
CanStart(c) ==
    /\ mounted[c] /\ ~Spinner(c)
    /\ activeMeeting[c] = 0
    /\ isTeacher(c)
    /\ ~isStarting[c]

\* Lines 143-151, 328-336 and 396-404: an End button is rendered.
\* Faulty variant: the End button is rendered for every role.
CanEndAnyRole(c) ==
    /\ mounted[c] /\ ~Spinner(c)
    /\ activeMeeting[c] # 0
CanEnd(c) ==
    /\ mounted[c] /\ ~Spinner(c)
    /\ activeMeeting[c] # 0
    /\ isTeacher(c)

\* The calls that a step of client c makes on the world outside the
\* component (toast, onClose, window.open), with the view it starts from.
Calling(c, calls) ==
    IF calls = <<>> THEN None
    ELSE [c |-> c, calls |-> calls, active |-> activeMeeting[c],
          shown |-> showMeeting[c]]

\* Lines 19-29 and 205-226: the component is mounted; its effect runs
\* checkActiveMeeting up to its await.
Mount(c, resp) ==
    /\ ~mounted[c]
    /\ Cardinality(OnTheWay(c, resp)) <= MaxPolls
    /\ mounted' = [mounted EXCEPT ![c] = TRUE]
    /\ activeMeeting' = [activeMeeting EXCEPT ![c] = 0]
    /\ isLoading' = [isLoading EXCEPT ![c] = TRUE]
    /\ isStarting' = [isStarting EXCEPT ![c] = FALSE]
    /\ showMeeting' = [showMeeting EXCEPT ![c] = FALSE]
    /\ polls' = [polls EXCEPT ![c] = {resp}]
    /\ out' = None
    /\ UNCHANGED <<variant, meetings, created, startCall, endCall,
                   startLog>>

\* Lines 28 and 225: the component is unmounted; the responses still on
\* the way find no component.  A component is unmounted between handlers.
Unmount(c) ==
    /\ mounted[c]
    /\ startCall[c] = None /\ endCall[c] = None
    /\ mounted' = [mounted EXCEPT ![c] = FALSE]
    /\ activeMeeting' = [activeMeeting EXCEPT ![c] = 0]
    /\ isLoading' = [isLoading EXCEPT ![c] = TRUE]
    /\ isStarting' = [isStarting EXCEPT ![c] = FALSE]
    /\ showMeeting' = [showMeeting EXCEPT ![c] = FALSE]
    /\ polls' = [polls EXCEPT ![c] = {}]
    /\ out' = None
    /\ UNCHANGED <<variant, meetings, created, startCall, endCall,
                   startLog>>

\* Lines 27 and 31-33: the interval of the polling component fires;
\* checkActiveMeeting runs up to its await.
PollTick(c, resp) ==
    /\ variant = "polling"
    /\ mounted[c]
    /\ Cardinality(OnTheWay(c, resp)) <= MaxPolls
    /\ isLoading' = [isLoading EXCEPT ![c] = TRUE]
    /\ polls' = [polls EXCEPT ![c] = @ \cup {resp}]
    /\ out' = None
    /\ UNCHANGED <<variant, meetings, created, mounted,
                   activeMeeting, isStarting, showMeeting, startCall, endCall,
                   startLog>>

\* Lines 33-39 and 230-234: what checkActiveMeeting makes of a response.
checked(c, resp) ==
    IF ~resp.error /\ resp.data # 0 THEN resp.data
    ELSE IF variant = "polling" THEN 0
    ELSE activeMeeting[c]

\* checkActiveMeeting resumes with the response resp.
PollApplied(c, resp) ==
    /\ mounted[c]
    /\ resp \in polls[c]
    /\ polls' = [polls EXCEPT ![c] = @ \ {resp}]
    /\ activeMeeting' = [activeMeeting EXCEPT ![c] = checked(c, resp)]
    /\ isLoading' = [isLoading EXCEPT ![c] = FALSE]
    /\ out' = None
    /\ UNCHANGED <<variant, meetings, created, mounted, isStarting,
                   showMeeting, startCall, endCall, startLog>>

\* Lines 54 and 248 with the catch clause: creating the record failed.
\* Faulty variant: an error in the response is not looked at.
createFailedOnThrow(call) == call.outcome = "throw"
createFailed(call) == call.outcome # "created"

\* Lines 42-51 and 237-246: Start is clicked; handleStartMeeting returns at
\* once without a user, and else runs up to its await of
\* createClassMeeting, which the backend settles.
StartClicked(c, user, outcome) ==
    /\ CanStart(c)
    /\ IF ~user
       THEN /\ out' = None
            /\ UNCHANGED <<meetings, created, isStarting, startCall, startLog>>
       ELSE /\ isStarting' = [isStarting EXCEPT ![c] = TRUE]
            /\ created' = IF outcome = "created" THEN created + 1 ELSE created
            /\ meetings' = IF outcome = "created"
                           THEN meetings \cup {created + 1} ELSE meetings
            /\ startCall' = [startCall EXCEPT ![c] =
                   [pc |-> "creating", outcome |-> outcome,
                    data |-> IF outcome = "created" THEN created + 1 ELSE 0]]
            /\ startLog' = [startLog EXCEPT ![c] = <<"createClassMeeting">>]
            /\ out' = None
    /\ UNCHANGED <<variant, mounted, activeMeeting, isLoading, showMeeting,
                   polls, endCall>>

\* Lines 53-61 and 247-257: createClassMeeting settled.  On a failure the
\* handler ends through its finally clause; otherwise the meeting is kept
\* (and embedded, by the embedding component) and the class is notified.
StartCreated(c, outcome) ==
    /\ startCall[c] # None /\ startCall[c].pc = "creating"
    /\ IF createFailed(startCall[c])
       THEN /\ isStarting' = [isStarting EXCEPT ![c] = FALSE]
            /\ startCall' = [startCall EXCEPT ![c] = None]
            /\ out' = Calling(c, <<"toast.error Failed to start meeting">>)
            /\ UNCHANGED <<activeMeeting, showMeeting, startLog>>
       ELSE /\ activeMeeting' = [activeMeeting EXCEPT ![c] = startCall[c].data]
            /\ showMeeting' = [showMeeting EXCEPT ![c] =
                                  IF variant = "embedding" THEN TRUE ELSE @]
            /\ startLog' = [startLog EXCEPT ![c] =
                   IF variant = "embedding"
                   THEN @ \o <<"embed", "notifyClassAboutMeeting">>
                   ELSE @ \o <<"notifyClassAboutMeeting">>]
            /\ startCall' = [startCall EXCEPT ![c] =
                   [pc |-> "notifying", outcome |-> outcome,
                    data |-> startCall[c].data]]
            /\ out' = None
            /\ UNCHANGED isStarting
    /\ UNCHANGED <<variant, meetings, created, mounted, isLoading,
                   polls, endCall>>

\* Lines 61-70 and 257-263: notifyClassAboutMeeting settled; the polling
\* component opens the meeting in a new tab; the finally clause runs.
StartNotified(c) ==
    /\ startCall[c] # None /\ startCall[c].pc = "notifying"
    /\ isStarting' = [isStarting EXCEPT ![c] = FALSE]
    /\ startCall' = [startCall EXCEPT ![c] = None]
    /\ IF startCall[c].outcome = "ok"
       THEN /\ startLog' = [startLog EXCEPT ![c] =
                   IF variant = "polling" THEN Append(@, "open") ELSE @]
            /\ out' = Calling(c,
                   IF variant = "polling"
                   THEN <<"toast.success Meeting started", "window.open">>
                   ELSE <<"toast.success Meeting started">>)
       ELSE /\ startLog' = startLog
            /\ out' = Calling(c, <<"toast.error Failed to start meeting">>)
    /\ UNCHANGED <<variant, meetings, created, mounted,
                   activeMeeting, isLoading, showMeeting, polls, endCall>>

\* Lines 77-83 and 266-270: handleJoinMeeting, which guards itself and is
\* run in any view of a mounted component.
\* Faulty variant: joining forgets the meeting.
JoinClickedForgets(c, user) ==
    /\ mounted[c] /\ ~Spinner(c)
    /\ activeMeeting' = [activeMeeting EXCEPT ![c] = 0]
    /\ out' = None
    /\ UNCHANGED <<variant, meetings, created, mounted, isLoading,
                   isStarting, showMeeting, polls, startCall, endCall, startLog>>
JoinClicked(c, user) ==
    /\ mounted[c] /\ ~Spinner(c)
    /\ IF variant = "polling"
       THEN /\ out' = Calling(c, IF activeMeeting[c] # 0 /\ user
                                 THEN <<"window.open">> ELSE <<>>)
            /\ UNCHANGED showMeeting
       ELSE /\ showMeeting' = [showMeeting EXCEPT ![c] =
                                  IF activeMeeting[c] # 0 THEN TRUE ELSE @]
            /\ out' = None
    /\ UNCHANGED <<variant, meetings, created, mounted,
                   activeMeeting, isLoading, isStarting, polls, startCall,
                   endCall, startLog>>

\* Lines 85-89 and 272-276: End is clicked; handleEndMeeting runs up to its
\* await of endMeeting, which the backend settles.  One handleEndMeeting of
\* a client is followed at a time.
EndClicked(c, outcome) ==
    /\ CanEnd(c)
    /\ endCall[c] = None
    /\ meetings' = IF outcome = "ok" THEN meetings \ {activeMeeting[c]}
                   ELSE meetings
    /\ endCall' = [endCall EXCEPT ![c] = [pc |-> "ending", outcome |-> outcome]]
    /\ out' = None
    /\ UNCHANGED <<variant, created, mounted, activeMeeting,
                   isLoading, isStarting, showMeeting, polls, startCall,
                   startLog>>

\* Lines 89-95 and 276-283: endMeeting settled.
EndSettled(c) ==
    /\ endCall[c] # None
    /\ endCall' = [endCall EXCEPT ![c] = None]
    /\ IF endCall[c].outcome = "ok"
       THEN /\ showMeeting' = [showMeeting EXCEPT ![c] = FALSE]
            /\ activeMeeting' = [activeMeeting EXCEPT ![c] = 0]
            /\ out' = Calling(c, <<"toast.success Meeting ended", "onClose">>)
       ELSE /\ out' = Calling(c, <<"toast.error Failed to end meeting">>)
            /\ UNCHANGED <<showMeeting, activeMeeting>>
    /\ UNCHANGED <<variant, meetings, created, mounted, isLoading,
                   isStarting, polls, startCall, startLog>>

\* Line 216: event.data?.type === 'MEETING_ENDED'
\* Faulty variant: every message is taken for the end of the meeting.
isEndSignalAny(type) == TRUE
isEndSignal(type) == type = "MEETING_ENDED"

\* Lines 215-223: handleMessage of the embedding component.
MessageReceived(c, type) ==
    /\ variant = "embedding"
    /\ mounted[c]
    /\ IF isEndSignal(type)
       THEN /\ showMeeting' = [showMeeting EXCEPT ![c] = FALSE]
            /\ activeMeeting' = [activeMeeting EXCEPT ![c] = 0]
            /\ out' = Calling(c, <<"toast.success Meeting ended", "onClose">>)
       ELSE /\ out' = None
            /\ UNCHANGED <<showMeeting, activeMeeting>>
    /\ UNCHANGED <<variant, meetings, created, mounted, isLoading,
                   isStarting, polls, startCall, endCall, startLog>>

\* Lines 338-343: the close button of the embedded meeting.
CloseView(c) ==
    /\ mounted[c] /\ ~Spinner(c) /\ Embedded(c)
    /\ showMeeting' = [showMeeting EXCEPT ![c] = FALSE]
    /\ out' = None
    /\ UNCHANGED <<variant, meetings, created, mounted,
                   activeMeeting, isLoading, isStarting, polls, startCall,
                   endCall, startLog>>

\* Lines 286-292 and 320-327: the new-tab button of the embedded meeting.
OpenInNewTab(c) ==
    /\ mounted[c] /\ ~Spinner(c) /\ Embedded(c)
    /\ out' = Calling(c, <<"window.open">>)
    /\ UNCHANGED <<variant, meetings, created, mounted,
                   activeMeeting, isLoading, isStarting, showMeeting, polls,
                   startCall, endCall, startLog>>

InitMeeting ==
    /\ IdleDoc
    /\ IdleFile
    /\ IdleUpload
    /\ variant \in Variants
    /\ meetings = {}
    /\ created = 0
    /\ mounted = [c \in Clients |-> FALSE]
    /\ activeMeeting = [c \in Clients |-> 0]
    /\ isLoading = [c \in Clients |-> TRUE]
    /\ isStarting = [c \in Clients |-> FALSE]
    /\ showMeeting = [c \in Clients |-> FALSE]
    /\ polls = [c \in Clients |-> {}]
    /\ startCall = [c \in Clients |-> None]
    /\ endCall = [c \in Clients |-> None]
    /\ startLog = [c \in Clients |-> <<>>]
    /\ out = None

NextMeeting ==
    \/ \E c \in Clients, resp \in GetActiveResponses :
          Mount(c, resp) /\ UNCHANGED <<docVars, fileVars, uploadVars>>
    \/ \E c \in Clients :
          Unmount(c) /\ UNCHANGED <<docVars, fileVars, uploadVars>>
    \/ \E c \in Clients, resp \in GetActiveResponses :
          PollTick(c, resp) /\ UNCHANGED <<docVars, fileVars, uploadVars>>
    \/ \E c \in Clients : \E resp \in polls[c] :
          PollApplied(c, resp) /\ UNCHANGED <<docVars, fileVars, uploadVars>>
    \/ \E c \in Clients, user \in Users, outcome \in CreateOutcomes :
          StartClicked(c, user, outcome) /\ UNCHANGED <<docVars, fileVars, uploadVars>>
    \/ \E c \in Clients, outcome \in SettleOutcomes :
          StartCreated(c, outcome) /\ UNCHANGED <<docVars, fileVars, uploadVars>>
    \/ \E c \in Clients :
          StartNotified(c) /\ UNCHANGED <<docVars, fileVars, uploadVars>>
    \/ \E c \in Clients, user \in Users :
          JoinClicked(c, user) /\ UNCHANGED <<docVars, fileVars, uploadVars>>
    \/ \E c \in Clients, outcome \in SettleOutcomes :
          EndClicked(c, outcome) /\ UNCHANGED <<docVars, fileVars, uploadVars>>
    \/ \E c \in Clients :
          EndSettled(c) /\ UNCHANGED <<docVars, fileVars, uploadVars>>
    \/ \E c \in Clients, type \in MessageTypes :
          MessageReceived(c, type) /\ UNCHANGED <<docVars, fileVars, uploadVars>>
    \/ \E c \in Clients :
          CloseView(c) /\ UNCHANGED <<docVars, fileVars, uploadVars>>
    \/ \E c \in Clients :
          OpenInNewTab(c) /\ UNCHANGED <<docVars, fileVars, uploadVars>>

SpecMeeting == InitMeeting /\ [][NextMeeting]_vars

(***************************************************************************)
(* Claims on the class meeting, under SpecMeeting.                         *)
(***************************************************************************)
Ended == <<"toast.success Meeting ended", "onClose">>

\* C15: the meeting of the class goes from in progress to ended only
\* through the end action of a client with the teacher role: a client with
\* isTeacher false never issues endMeeting, whatever it does (join, close
\* the view, poll, receive a signal), and a record stops being active only
\* in a step that is the End click of a teacher.
C15_OnlyTeacherEnds ==
    [][/\ \A c \in Clients : c # "teacher" => endCall'[c] = None
       /\ (meetings \ meetings') # {}
             => \E outcome \in SettleOutcomes : EndClicked("teacher", outcome)
      ]_vars

C15_Witness ==
    /\ created = 1 /\ meetings = {}
    /\ endCall["teacher"] # None /\ endCall["teacher"].outcome = "ok"
    /\ mounted["student"] /\ activeMeeting["student"] = 1
    /\ endCall["student"] = None

\* C16: handling the MEETING_ENDED signal in a view with a meeting in
\* progress gives the state that a successful handleEndMeeting gives from
\* the same state: the view is closed, no meeting is active locally,
\* onClose is invoked, and the meeting is ended at the backend.
C16_SignalAsLocalEnd ==
    [][\A c \in Clients :
          (MessageReceived(c, "MEETING_ENDED") /\ activeMeeting[c] # 0)
              => /\ ~showMeeting'[c]
                 /\ activeMeeting'[c] = 0
                 /\ out' # None /\ out'.calls = Ended
                 /\ activeMeeting[c] \notin meetings'
      ]_vars

\* C17: once a teacher start has succeeded, and while the meeting has not
\* been ended and no end action is under way, every poll result applied to
\* the teacher's component by checkActiveMeeting, one requested before the
\* start included, leaves the local view with a meeting in progress.
C17_PollKeepsInProgress ==
    [][\A c \in Clients : \A resp \in polls[c] :
          (/\ PollApplied(c, resp)
           /\ c = "teacher"
           /\ Len(startLog[c]) >= 2 /\ startCall[c] = None
           /\ activeMeeting[c] # 0
           /\ activeMeeting[c] \in meetings
           /\ endCall[c] = None)
              => activeMeeting'[c] # 0
      ]_vars

\* C18: in a local view with a meeting in progress, receiving the
\* MEETING_ENDED signal (handleMessage, which the embedding component
\* registers) clears activeMeeting and hides the embedded view in that same
\* step, with no poll requested or applied; a message of any other type
\* leaves the local view as it is.
C18_SignalEndsLocalView ==
    [][\A c \in Clients :
          /\ (MessageReceived(c, "MEETING_ENDED") /\ activeMeeting[c] # 0)
                => /\ activeMeeting'[c] = 0
                   /\ ~showMeeting'[c]
                   /\ polls' = polls
          /\ \A type \in {"OTHER"} :
                MessageReceived(c, type)
                   => /\ activeMeeting' = activeMeeting
                      /\ showMeeting' = showMeeting
                      /\ isLoading' = isLoading
      ]_vars

C18_Witness ==
    /\ variant = "embedding"
    /\ out # None /\ out.c = "student" /\ out.calls = Ended
    /\ out.active # 0 /\ out.shown
    /\ activeMeeting["student"] = 0 /\ ~showMeeting["student"]
    /\ polls["student"] = {}

\* C19: the join action changes only the viewing state of the client that
\* joins: it makes no create, end or notify call, and leaves the meetings
\* of the backend and the local activeMeeting as they are; with no active
\* meeting it does nothing.
C19_JoinOnlyViews ==
    [][\A c \in Clients : \A user \in BOOLEAN :
          JoinClicked(c, user)
              => /\ meetings' = meetings /\ created' = created
                 /\ startCall' = startCall /\ endCall' = endCall
                 /\ startLog' = startLog
                 /\ activeMeeting' = activeMeeting
                 /\ \A d \in Clients \ {c} : showMeeting'[d] = showMeeting[d]
                 /\ activeMeeting[c] = 0
                       => showMeeting' = showMeeting /\ out' = None
      ]_vars

C19_Witness ==
    /\ variant = "embedding"
    /\ showMeeting["student"] /\ activeMeeting["student"] = 1
    /\ 1 \in meetings
    /\ startCall["student"] = None /\ endCall["student"] = None

\* The place of a call in a log, 0 when it is not there.
Place(log, calls) ==
    IF \E i \in 1..Len(log) : log[i] \in calls
    THEN CHOOSE i \in 1..Len(log) : log[i] \in calls
    ELSE 0

\* C20, as stated: a teacher start creates the meeting record, then
\* notifies the class, then opens or embeds the meeting; when creating the
\* record fails nothing is notified, no meeting is opened, the local view
\* stays without a meeting and isStarting is false again at the end.
C20_CreateNotifyOpen ==
    \A c \in Clients :
       /\ Place(startLog[c], {"open", "embed"}) # 0
             => /\ Place(startLog[c], {"notifyClassAboutMeeting"}) # 0
                /\ Place(startLog[c], {"notifyClassAboutMeeting"})
                      < Place(startLog[c], {"open", "embed"})
       /\ Place(startLog[c], {"notifyClassAboutMeeting"}) # 0
             => startLog[c][1] = "createClassMeeting"

\* The logs of a handleStartMeeting of each component.
StartLogs ==
    IF variant = "polling"
    THEN {<<"createClassMeeting">>,
          <<"createClassMeeting", "notifyClassAboutMeeting">>,
          <<"createClassMeeting", "notifyClassAboutMeeting", "open">>}
    ELSE {<<"createClassMeeting">>,
          <<"createClassMeeting", "embed", "notifyClassAboutMeeting">>}

\* C20, amended: a teacher start creates the meeting record first.  The
\* polling component then notifies the class and, once notified, opens the
\* meeting in a new tab; the embedding component embeds the meeting as soon
\* as the record is created, before it notifies the class.  When creating
\* the record fails nothing is notified, no meeting is opened or embedded,
\* the local view is left as it was and isStarting is false again at the
\* end of the handler.
C20_CreateFirst ==
    [][\A c \in Clients :
          /\ startLog'[c] # <<>> => startLog'[c] \in StartLogs
          /\ (/\ startCall[c] # None /\ startCall[c].pc = "creating"
              /\ startCall[c].outcome # "created"
              /\ startCall'[c] # startCall[c])
                => /\ startLog'[c] = <<"createClassMeeting">>
                   /\ activeMeeting' = activeMeeting
                   /\ showMeeting' = showMeeting
                   /\ startCall'[c] = None
                   /\ ~isStarting'[c]
      ]_vars

C20_Witness ==
    /\ variant = "embedding"
    /\ startLog["teacher"]
           = <<"createClassMeeting", "embed", "notifyClassAboutMeeting">>
    /\ startCall["teacher"] = None /\ ~isStarting["teacher"]
    /\ showMeeting["teacher"] /\ activeMeeting["teacher"] = 1

\* C21: in the polling component, once a successful handleEndMeeting of the
\* teacher has settled (the meeting is ended at the backend and the local
\* activeMeeting was set to null), no poll response applied afterwards,
\* one requested before the end included, makes the ended meeting the
\* local activeMeeting again.
C21_EndedStaysEnded ==
    [][\A c \in Clients : \A resp \in polls[c] :
          (/\ PollApplied(c, resp)
           /\ variant = "polling"
           /\ isTeacher(c)
           /\ endCall[c] = None
           /\ activeMeeting[c] = 0
           /\ resp.data # 0 /\ resp.data \notin meetings)
              => activeMeeting'[c] # resp.data
      ]_vars

(***************************************************************************)
(* The upload of class materials (ClassMeeting.tsx, lines 456-497 and      *)
(* 609-639): uploadMaterials uploads the files of a list one after the     *)
(* other through uploadMaterial, which is uploadFile on the bucket         *)
(* materials.  The storage client (supabase) is imported: what getUser and *)
(* upload resolve with is an input.  The callback onProgress is the        *)
(* caller's: it is absent, or it returns, or it may throw when called.     *)
(* The loop variable i counts from 0 as in the source.                     *)
(***************************************************************************)
MaxFiles == 2            \* files in the list given to uploadMaterials

\* The files of a list.
UploadFiles ==
    {File(<<"notes", "pdf">>, "application/pdf", 7, <<>>),
     File(<<"photo", "PNG">>, "image/png", 0, <<>>)}

FileLists == UNION {[1..n -> UploadFiles] : n \in 0..MaxFiles}

\* The argument onProgress.
Callbacks == {"absent", "returns", "throws"}

\* What a call of onProgress can do.
CallbackOutcomes ==
    IF onProgress = "throws" THEN {"returned", "threw"} ELSE {"returned"}

\* What supabase.auth.getUser() can resolve with: a user (TRUE) or none.
UserOutcomes == BOOLEAN

\* What supabase.storage.from(bucket).upload can resolve with.
StorageOutcomes == {"ok", "error"}

\* The messages of the errors thrown by lines 462 and 482, of the error of
\* the storage, and of the error a callback throws.
NotLoggedInMessage == <<"Must be logged in to upload files">>

StorageMessage == <<"storage error">>

UploadFailedMessage(msg) == <<"Upload failed: ">> \o msg

CallbackMessage == <<"callback error">>

\* file.name as one string: the parts of the name with dots between them.
NameText(name) ==
    [k \in 1..(2 * Len(name) - 1) |->
        IF k % 2 = 1 THEN name[(k + 1) \div 2] ELSE "."]

\* Line 465: file.name.split('.').pop()
fileExt(f) == f.name[Len(f.name)]

\* Lines 466-469: the path in the bucket, with the folder classId.
filePath(f) ==
    <<"user.id", "/", "classId", "/", "timestamp", "_", "randomId", ".",
      fileExt(f)>>

\* Lines 486-496: the UploadResult of a file.
UploadResult(f) ==
    [url |-> <<"publicUrl ">> \o filePath(f),
     path |-> filePath(f),
     fileName |-> f.name,
     fileType |-> f.type,
     fileSize |-> f.size]

\* Lines 621-623: the progress at the start of a file, and lines 630-632:
\* at its end; how the call of onProgress ended is kept with it.
ProgressStart(idx, f, cb) ==
    [fileIndex |-> idx, loaded |-> 0, total |-> f.size, percentage |-> 0,
     call |-> cb]

ProgressComplete(idx, f, cb) ==
    [fileIndex |-> idx, loaded |-> f.size, total |-> f.size,
     percentage |-> 100, call |-> cb]

\* Lines 633-635: the catch clause of the loop body.
\* Faulty variant: the error of a file is dropped.
caughtDropped(errs, f, msg) == errs
caught(errs, f, msg) == Append(errs, NameText(f.name) \o <<": ">> \o msg)

\* The attempt under way is over.
Settled(outcome) ==
    [attempts EXCEPT ![Len(attempts)] =
        [fileIndex |-> @.fileIndex, outcome |-> outcome]]

\* Lines 617-626 and 638: the loop goes on at index idx with the results
\* res, the errors errs, the progress calls prog and the attempts att.  It
\* returns after the last file; else it calls onProgress, if there is one,
\* which throws out of uploadMaterials or returns, and then runs
\* uploadMaterial, that is uploadFile, up to its await of getUser.
Iterate(idx, res, errs, prog, att, cb) ==
    /\ fileIndex' = idx
    /\ results' = res
    /\ errors' = errs
    /\ IF ~(idx < Len(files))
       THEN /\ uploadPc' = "done"
            /\ uploadReturn' = [kind |-> "returned", results |-> res,
                                errors |-> errs]
            /\ progress' = prog
            /\ attempts' = att
       ELSE IF onProgress # "absent" /\ cb = "threw"
       THEN /\ uploadPc' = "done"
            /\ uploadReturn' = [kind |-> "threw", message |-> CallbackMessage]
            /\ progress' = Append(prog, ProgressStart(idx, files[idx + 1], cb))
            /\ attempts' = att
       ELSE /\ uploadPc' = "getUser"
            /\ uploadReturn' = uploadReturn
            /\ progress' = IF onProgress = "absent" THEN prog
                           ELSE Append(prog,
                                    ProgressStart(idx, files[idx + 1], cb))
            /\ attempts' = Append(att, [fileIndex |-> idx,
                                        outcome |-> "pending"])
    /\ UNCHANGED <<files, onProgress>>

\* Lines 609-617: uploadMaterials is called.
UploadMaterials(cb) ==
    /\ uploadPc = "idle"
    /\ Iterate(0, <<>>, <<>>, <<>>, <<>>, cb)

\* Lines 461-477: getUser resolved.  Without a user uploadFile throws,
\* which the loop body catches; with one it issues the upload.
UserResolved(user, cb) ==
    /\ uploadPc = "getUser"
    /\ IF ~user
       THEN Iterate(fileIndex + 1, results,
                    caught(errors, files[fileIndex + 1], NotLoggedInMessage),
                    progress, Settled("failed"), cb)
       ELSE /\ uploadPc' = "upload"
            /\ UNCHANGED <<files, onProgress, fileIndex, results, errors,
                           progress, attempts, uploadReturn>>

\* Lines 472-496 and 626-635: the upload resolved.  With an error
\* uploadFile throws, which the loop body catches; else the result is
\* pushed and onProgress, if there is one, is called in the try block, so
\* that what it throws is caught as well.
UploadSettled(outcome, cbComplete, cb) ==
    /\ uploadPc = "upload"
    /\ LET f == files[fileIndex + 1]
       IN  IF outcome = "error"
           THEN Iterate(fileIndex + 1, results,
                        caught(errors, f, UploadFailedMessage(StorageMessage)),
                        progress, Settled("failed"), cb)
           ELSE IF onProgress = "absent"
           THEN Iterate(fileIndex + 1, Append(results, UploadResult(f)),
                        errors, progress, Settled("ok"), cb)
           ELSE Iterate(fileIndex + 1, Append(results, UploadResult(f)),
                        IF cbComplete = "threw"
                        THEN caught(errors, f, CallbackMessage) ELSE errors,
                        Append(progress,
                               ProgressComplete(fileIndex, f, cbComplete)),
                        Settled("ok"), cb)

InitUpload ==
    /\ IdleDoc
    /\ IdleFile
    /\ IdleMeeting
    /\ files \in FileLists
    /\ onProgress \in Callbacks
    /\ uploadPc = "idle"
    /\ fileIndex = 0
    /\ results = <<>>
    /\ errors = <<>>
    /\ progress = <<>>
    /\ attempts = <<>>
    /\ uploadReturn = None

NextUpload ==
    \/ \E cb \in CallbackOutcomes :
          UploadMaterials(cb) /\ UNCHANGED <<docVars, fileVars, meetVars>>
    \/ \E user \in UserOutcomes, cb \in CallbackOutcomes :
          UserResolved(user, cb) /\ UNCHANGED <<docVars, fileVars, meetVars>>
    \/ \E outcome \in StorageOutcomes :
       \E cbComplete \in CallbackOutcomes, cb \in CallbackOutcomes :
          UploadSettled(outcome, cbComplete, cb)
             /\ UNCHANGED <<docVars, fileVars, meetVars>>

SpecUpload == InitUpload /\ [][NextUpload]_vars

(***************************************************************************)
(* Claims on uploadMaterials, under SpecUpload.                            *)
(***************************************************************************)
IsOk(a) == a.outcome = "ok"

IsComplete(p) == p.percentage = 100

FileIndexes(seq) == [k \in 1..Len(seq) |-> seq[k].fileIndex]

\* The files are attempted one at a time in the order of the list, each
\* once: the k-th call of uploadMaterial is for files[k - 1], and it is
\* made when the calls before it are over.
InListOrder ==
    /\ \A k \in 1..Len(attempts) : attempts[k].fileIndex = k - 1
    /\ \A k \in 1..(Len(attempts) - 1) : attempts[k].outcome # "pending"

\* The results are those of the files whose upload succeeded, in the order
\* of the list.
ResultsInOrder ==
    LET ok == SelectSeq(attempts, IsOk)
    IN  results = [k \in 1..Len(ok) |-> UploadResult(files[ok[k].fileIndex + 1])]

\* The 100% call of onProgress has been made once for each file whose
\* upload succeeded, and for no other.
CompleteForSucceeded ==
    FileIndexes(SelectSeq(progress, IsComplete))
        = FileIndexes(SelectSeq(attempts, IsOk))

\* The calls of onProgress that threw.
Thrown(percentage) ==
    {k \in 1..Len(progress) :
        progress[k].call = "threw" /\ progress[k].percentage = percentage}

====
